---- MODULE Spec2Model ----
(***************************************************************************)
(* Model of the PMS5003 dust-sensor driver (PMS5003.h / PMS5003.cpp).      *)
(*                                                                         *)
(* The driver object, the millisecond clock (millis), the sleep-control    *)
(* pin and the byte stream delivered by the transport (Stream::readBytes)  *)
(* are the state.  getData() blocks inside readBytes() and yield(), so one *)
(* iteration of each of its two read loops is one step; every other        *)
(* operation of the class is one step.  millis() is a monotonic counter    *)
(* that has not wrapped around; a readBytes() that returns nothing has     *)
(* blocked for a while, and a yield() may take time.                       *)
(***************************************************************************)
EXTENDS Integers, Sequences, FiniteSets, TLC

VARIABLES
    _sleepPin,      \* int8_t _sleepPin (negative: no sleep-control pin)
    _uart,          \* Stream* _uart: TRUE when non-NULL
    _isReady,       \* bool _isReady
    _isSleeping,    \* bool _isSleeping
    _wakeUpTime,    \* int64_t _wakeUpTime
    meas,           \* the 12 public data fields pm1p0std .. nc10um, in order
    pin,            \* level last written to the sleep pin: "none", "LOW", "HIGH"
    now,            \* millis()
    stream,         \* the bytes the transport delivers, in order
    endless,        \* TRUE when the transport repeats stream for ever
    pos,            \* number of bytes of stream already consumed by readBytes
    pc,             \* "idle", or the loop getData() is blocked in: "resync", "payload"
    startTime,      \* getData: int64_t startTime
    i,              \* getData: the loop index i (0-based try number)
    n,              \* getDataInternal: int n
    buff,           \* getDataInternal: byte buff[32] (buff[k] is buff[k+1] here)
    lastOp,         \* the public operation called last
    ret,            \* the int it returned, when it was getData(); 0 otherwise
    bret,           \* the bool it returned, when it returns bool; FALSE otherwise
    outcomes,       \* the getDataInternal() results of that call, in order
    pos0,           \* pos when the running getDataInternal() was entered
    ev,             \* what the last loop pass of getDataInternal() did, in order
    horizon         \* the clock value after which the host makes no new call

drv  == <<_sleepPin, _uart, _isReady, _isSleeping, _wakeUpTime, pin>>
loc  == <<pc, startTime, i, n, buff>>
hist == <<lastOp, ret, bret, outcomes, pos0, ev>>
vars == <<drv, meas, now, stream, endless, pos, loc, hist, horizon>>

-----------------------------------------------------------------------------
(* Program constants *)

PREHEAT_TIME == 30000
READ_TIMEOUT == 800
TRIES_NUM == 3
BUFF_SIZE == 32
MARK1 == 66
MARK2 == 77
FRAME_LENGTH == 28
CRC_BYTES == 30
UINT16 == 65536

(* Bounds of the exploration *)

MaxClock == 61600       \* horizon of the runs that exercise Sleep() and WakeUp()
FrameClock == 31600     \* horizon of the runs that exercise the frame reader
MaxGarbage == 2         \* longest garbage prefix in front of a frame
MaxCorrupt == 3         \* most corrupt frames in front of a valid one
MaxDrift == 1600        \* calls are made at most this long after a long idle wait
Chunk == 16             \* size of a partial payload read

TickSteps == {400, 29600}      \* idle time between two calls
DataDelays == {0}              \* time a readBytes() that returns data takes
BlockDelays == {400}           \* time a readBytes() that returns nothing blocks
YieldDelays == {0, 400}        \* time a yield() takes
SleepPins == {-1, 0}           \* constructor argument sleepPin
GarbageBytes == {0, MARK1, MARK2}

-----------------------------------------------------------------------------
(* Frames and byte streams the sensor side can produce *)

RECURSIVE SumBytes(_, _)
SumBytes(s, k) == IF k = 0 THEN 0 ELSE s[k] + SumBytes(s, k - 1)

RECURSIVE FieldBytes(_)
FieldBytes(f) ==
    IF f = <<>> THEN <<>>
    ELSE <<Head(f) \div 256, Head(f) % 256>> \o FieldBytes(Tail(f))

\* a 32-byte frame: declared length len, the 12 fields, bytes 28..29, and a
\* checksum that is off by ckErr
MkFrame(len, fields, rsv, ckErr) ==
    LET body == <<MARK1, MARK2, len \div 256, len % 256>> \o FieldBytes(fields) \o rsv
        ck   == (SumBytes(body, Len(body)) + ckErr) % UINT16
    IN  body \o <<ck \div 256, ck % 256>>

FieldsA == <<258, 772, 1286, 1800, 2314, 2828, 3342, 3856, 4370, 4884, 5398, 5912>>
FieldsB == <<65535, 16973, 0, 1, 256, 255, 19778, 4660, 43981, 128, 32768, 77>>

FrameA  == MkFrame(FRAME_LENGTH, FieldsA, <<0, 0>>, 0)
FrameA2 == MkFrame(FRAME_LENGTH, FieldsA, <<151, 3>>, 0)
FrameB  == MkFrame(FRAME_LENGTH, FieldsB, <<0, 0>>, 0)
BadCrc  == MkFrame(FRAME_LENGTH, FieldsB, <<0, 0>>, 1)
BadCrcHi == MkFrame(FRAME_LENGTH, FieldsB, <<0, 0>>, 256)
BadLen  == MkFrame(FRAME_LENGTH - 1, FieldsB, <<0, 0>>, 0)
BadLenHi == MkFrame(FRAME_LENGTH + 256, FieldsB, <<0, 0>>, 0)
BadBoth == MkFrame(FRAME_LENGTH + 1, FieldsB, <<0, 0>>, 65535)

ValidFrames == {FrameA, FrameA2, FrameB}
CorruptFrames == {BadCrc, BadCrcHi, BadLen, BadLenHi, BadBoth}

RECURSIVE Repeat(_, _)
Repeat(s, k) == IF k = 0 THEN <<>> ELSE s \o Repeat(s, k - 1)

Garbage == UNION {[1..k -> GarbageBytes] : k \in 0..MaxGarbage}

\* the streams of the runs that exercise Sleep() and WakeUp()
PowerStreams == {<<>>, FrameA \o BadCrc, BadCrc \o FrameA}

\* the streams of the runs that check that every call returns; each is
\* delivered once or, with endless, over and over
LiveStreams ==
    {<<>>, <<0, MARK1, 0, MARK2>>, SubSeq(FrameA, 1, 20), BadCrc, FrameA}

Streams ==
    {g \o FrameA : g \in Garbage}
    \cup {c \o FrameA : c \in CorruptFrames}
    \cup {Repeat(BadCrc, k) \o v : k \in 0..MaxCorrupt, v \in ValidFrames}
    \cup {FrameA \o FrameB, FrameB \o FrameA2, BadCrc \o BadLen \o FrameA}
    \cup {<<>>, <<0, MARK2, 0>>, SubSeq(FrameA, 1, 20), <<MARK1>> \o FrameB \o FrameA}

-----------------------------------------------------------------------------
(* Pure parts of the driver *)

\* int64_t division: C++ truncates the quotient toward zero
CDiv(a, b) == IF a >= 0 THEN a \div b ELSE -((-a) \div b)

\* variant: ready from the boundary instant on
PreheatExpiredAtBoundary(t) == t >= PREHEAT_TIME

\* isReady: ((int64_t)millis() - _wakeUpTime) > PREHEAT_TIME
PreheatExpired(t) == t > PREHEAT_TIME

\* variant: the boundary instant is taken as preheated
PreheatInProgressStrict(t) == t < PREHEAT_TIME

\* getData: timeFromWakeUp <= PREHEAT_TIME
PreheatInProgress(t) == t <= PREHEAT_TIME

\* getData: (int)((timeFromWakeUp - PREHEAT_TIME) / 1000)
PreheatReturn(t) == CDiv(t - PREHEAT_TIME, 1000)

\* variant: the sleeping flag is not tested
EarlyReturnIgnoresSleep(uart, sleeping) == ~uart

\* getData: (_uart == NULL) || _isSleeping
EarlyReturn(uart, sleeping) == (~uart) \/ sleeping

\* variant: the operands of the subtraction are swapped
TimedOutBackwards(t, start) == start - t >= READ_TIMEOUT

\* variant: the window is compared with > instead of >=
TimedOutStrict(t, start) == t - start > READ_TIMEOUT

\* getDataInternal: (int64_t)millis() - startTime >= READ_TIMEOUT
TimedOut(t, start) == t - start >= READ_TIMEOUT

\* getDataInternal: the if / else-if that follows a one-byte read into buff[nn]
ResyncStep(nn, bf) ==
    IF nn = 0 /\ bf[1] = MARK1 THEN [n |-> 1, buff |-> [bf EXCEPT ![2] = 0]]
    ELSE IF nn = 1 /\ bf[2] # MARK2 THEN [n |-> 0, buff |-> bf]
    ELSE [n |-> nn, buff |-> bf]

\* getDataInternal: the first loop goes on while (buff[0] != 0x42) || (buff[1] != 0x4D)
MarkerLocked(bf) == ~(bf[1] # MARK1 \/ bf[2] # MARK2)

\* uint16_t(hi)<<8 | uint16_t(lo)
Word(hi, lo) == ((hi * 256) % UINT16) + lo

RECURSIVE CrcSum(_, _)
\* uint16_t crcSum = 0; for (i < k) crcSum += buff[i]
CrcSum(bf, k) == IF k = 0 THEN 0 ELSE (CrcSum(bf, k - 1) + bf[k]) % UINT16

\* variant: a frame is rejected only when both checks fail
BadDataBoth(bf) ==
    LET crcSum      == CrcSum(bf, CRC_BYTES)
        frameLength == Word(bf[3], bf[4])
        crc         == Word(bf[31], bf[32])
    IN  (crcSum # crc) /\ (frameLength # FRAME_LENGTH)

\* getDataInternal: (crcSum != crc) || (frameLength != 28)
BadData(bf) ==
    LET crcSum      == CrcSum(bf, CRC_BYTES)
        frameLength == Word(bf[3], bf[4])
        crc         == Word(bf[31], bf[32])
    IN  (crcSum # crc) \/ (frameLength # FRAME_LENGTH)

\* variant: the two bytes of each field are swapped
DecodeLittleEndian(bf) == [k \in 1..12 |-> Word(bf[4 + 2 * k], bf[3 + 2 * k])]

\* getDataInternal: the 12 assignments pm1p0std = ... nc10um = ...
Decode(bf) == [k \in 1..12 |-> Word(bf[3 + 2 * k], bf[4 + 2 * k])]

\* variant: the fields are assigned before the frame is checked
ValidateStoresFirst(bf, m) ==
    [rc |-> IF BadData(bf) THEN 2 ELSE 0, meas |-> Decode(bf)]

\* getDataInternal once buff is full: the result code and the data fields
Validate(bf, m) ==
    IF BadData(bf) THEN [rc |-> 2, meas |-> m]
    ELSE [rc |-> 0, meas |-> Decode(bf)]

\* variant: a timeout is retried like bad data
SwitchRetriesTimeout(rc) ==
    CASE rc = 0 -> "ok"
      [] rc = 1 -> "retry"
      [] rc = 2 -> "retry"

\* variant: a good frame does not end the loop
SwitchRetriesSuccess(rc) ==
    CASE rc = 0 -> "retry"
      [] rc = 1 -> "timeout"
      [] rc = 2 -> "retry"

\* getData: the switch on the result of getDataInternal
Switch(rc) ==
    CASE rc = 0 -> "ok"
      [] rc = 1 -> "timeout"
      [] rc = 2 -> "retry"

\* variant: the window of the first try is kept
RestartKeepsWindow(start, t) == start

\* getData: case 2 restarts the window at millis()
Restart(start, t) == t

-----------------------------------------------------------------------------
(* The state after construction *)

Zero12 == [k \in 1..12 |-> 0]
ZeroBuff == [k \in 1..BUFF_SIZE |-> 0]

\* the constructors leave the data fields unset, and init() leaves
\* _wakeUpTime unset when the driver starts asleep
UnsetMeas == {Zero12, FieldsB}
UnsetTime == {0, -40000}

InitWith(pins, uarts, streams, h, rep) ==
    /\ horizon = h
    /\ endless \in rep
    /\ _sleepPin \in pins
    /\ _uart \in uarts
    /\ stream \in streams
    /\ now = 0
    /\ _isReady = FALSE
    /\ \E sleep \in BOOLEAN :
         IF _sleepPin >= 0 /\ sleep
         THEN pin = "LOW" /\ _isSleeping = TRUE /\ _wakeUpTime \in UnsetTime
         ELSE /\ pin = IF _sleepPin >= 0 THEN "HIGH" ELSE "none"
              /\ _isSleeping = FALSE
              /\ _wakeUpTime = now
    /\ meas \in UnsetMeas
    /\ pos = 0
    /\ pc = "idle" /\ startTime = 0 /\ i = 0 /\ n = 0 /\ buff = ZeroBuff
    /\ lastOp = "init" /\ ret = 0 /\ bret = FALSE /\ outcomes = <<>> /\ pos0 = pos /\ ev = <<>>

Init == InitWith(SleepPins, BOOLEAN, PowerStreams, MaxClock, {FALSE})

InitFrames == InitWith({-1}, {TRUE}, Streams, FrameClock, {FALSE})

InitLive == InitWith({-1}, {TRUE}, LiveStreams, FrameClock, BOOLEAN)

-----------------------------------------------------------------------------
(* Operations *)

\* the clock values at which the host calls the driver
Instant(t) == t <= horizon /\ t % 29600 <= MaxDrift

Called(op) ==
    /\ pc = "idle"
    /\ lastOp' = op
    /\ outcomes' = <<>>
    /\ pos0' = pos
    /\ ev' = <<>>
    /\ UNCHANGED <<horizon, endless>>

\* a bool-returning operation returns b
Returned(b) == bret' = b /\ ret' = 0

\* time passes between two calls
Tick ==
    /\ pc = "idle"
    /\ \E d \in TickSteps : Instant(now + d) /\ now' = now + d
    /\ UNCHANGED <<drv, meas, stream, endless, pos, loc, hist, horizon>>

isReady ==
    /\ Called("isReady")
    /\ IF _isSleeping THEN _isReady' = _isReady /\ Returned(FALSE)
       ELSE /\ _isReady' = IF (~_isReady) /\ _uart /\ PreheatExpired(now - _wakeUpTime)
                           THEN TRUE ELSE _isReady
            /\ Returned(_isReady')
    /\ UNCHANGED <<_sleepPin, _uart, _isSleeping, _wakeUpTime, pin, meas, now, stream, pos, loc>>

isSleeping ==
    /\ Called("isSleeping")
    /\ Returned(_isSleeping)
    /\ UNCHANGED <<drv, meas, now, stream, pos, loc>>

\* variant: Sleep() leaves _isReady as it is
SleepKeepsReady ==
    /\ Called("Sleep")
    /\ IF _sleepPin >= 0
       THEN /\ pin' = "LOW" /\ _isReady' = _isReady /\ _isSleeping' = TRUE
            /\ \A k \in 1..2 : EarlyReturn(_uart, _isSleeping')
       ELSE UNCHANGED <<pin, _isReady, _isSleeping>>
    /\ Returned(_isSleeping')
    /\ UNCHANGED <<_sleepPin, _uart, _wakeUpTime, meas, now, stream, pos, loc>>

\* variant: Sleep() does not test _sleepPin
SleepWithoutPinTest ==
    /\ Called("Sleep")
    /\ pin' = "LOW" /\ _isReady' = FALSE /\ _isSleeping' = TRUE
    /\ \A k \in 1..2 : EarlyReturn(_uart, _isSleeping')
    /\ Returned(_isSleeping')
    /\ UNCHANGED <<_sleepPin, _uart, _wakeUpTime, meas, now, stream, pos, loc>>

\* the two getData() calls of Sleep() run with _isSleeping already set
Sleep ==
    /\ Called("Sleep")
    /\ IF _sleepPin >= 0
       THEN /\ pin' = "LOW" /\ _isReady' = FALSE /\ _isSleeping' = TRUE
            /\ \A k \in 1..2 : EarlyReturn(_uart, _isSleeping')
       ELSE UNCHANGED <<pin, _isReady, _isSleeping>>
    /\ Returned(_isSleeping')
    /\ UNCHANGED <<_sleepPin, _uart, _wakeUpTime, meas, now, stream, pos, loc>>

\* variant: WakeUp() does not test _isSleeping
WakeUpAlwaysStamps ==
    /\ Called("WakeUp")
    /\ IF _sleepPin >= 0
       THEN pin' = "HIGH" /\ _isSleeping' = FALSE /\ _wakeUpTime' = now
       ELSE UNCHANGED <<pin, _isSleeping, _wakeUpTime>>
    /\ Returned(~_isSleeping')
    /\ UNCHANGED <<_sleepPin, _uart, _isReady, meas, now, stream, pos, loc>>

WakeUp ==
    /\ Called("WakeUp")
    /\ IF _sleepPin >= 0 /\ _isSleeping
       THEN pin' = "HIGH" /\ _isSleeping' = FALSE /\ _wakeUpTime' = now
       ELSE UNCHANGED <<pin, _isSleeping, _wakeUpTime>>
    /\ Returned(~_isSleeping')
    /\ UNCHANGED <<_sleepPin, _uart, _isReady, meas, now, stream, pos, loc>>

\* getData() up to its first getDataInternal() call
getData ==
    /\ Called("getData")
    /\ Instant(now)
    /\ bret' = FALSE
    /\ IF EarlyReturn(_uart, _isSleeping)
       THEN ret' = 0 /\ UNCHANGED loc
       ELSE IF PreheatInProgress(now - _wakeUpTime)
       THEN ret' = PreheatReturn(now - _wakeUpTime) /\ UNCHANGED loc
       ELSE /\ pc' = "resync" /\ startTime' = now /\ i' = 0
            /\ n' = 0 /\ buff' = ZeroBuff
            /\ ret' = ret
    /\ UNCHANGED <<drv, meas, now, stream, pos>>

\* getData() from the return of getDataInternal() with rc at clock t
AfterAttempt(rc, t) ==
    /\ outcomes' = Append(outcomes, rc)
    /\ pos0' = pos'
    /\ IF Switch(rc) = "retry" /\ i + 1 < TRIES_NUM
       THEN /\ pc' = "resync" /\ startTime' = Restart(startTime, t) /\ i' = i + 1
            /\ n' = 0 /\ buff' = ZeroBuff
            /\ ret' = ret
       ELSE /\ pc' = "idle" /\ startTime' = 0 /\ i' = 0 /\ n' = 0 /\ buff' = ZeroBuff
            /\ ret' = IF Switch(rc) = "ok" THEN 1 ELSE 0

\* the number of bytes the transport can deliver to the next read
Pending == IF endless /\ Len(stream) > 0 THEN BUFF_SIZE ELSE Len(stream) - pos

\* the k-th byte the transport delivers next
ByteAt(k) == stream[((pos + k - 1) % Len(stream)) + 1]

\* the stream position after m more bytes are consumed
Advance(m) == IF endless /\ Len(stream) > 0 THEN (pos + m) % Len(stream) ELSE pos + m

\* variant: yield() is called only after a read that returned nothing
LoopPassYieldsWhenEmpty(m, timedOut) ==
    IF timedOut THEN <<"read", "check">>
    ELSE IF m = 0 THEN <<"read", "check", "yield">> ELSE <<"read", "check">>

\* one pass of either loop of getDataInternal() after a read of m bytes:
\* readBytes, the timeout test and its return, then yield()
LoopPass(m, timedOut) ==
    IF timedOut THEN <<"read", "check">> ELSE <<"read", "check", "yield">>

\* one pass of the first loop of getDataInternal()
ReadResync ==
    /\ pc = "resync"
    /\ \E m \in 0..1 :
         /\ m <= Pending
         /\ \E d \in (IF m = 0 THEN BlockDelays ELSE DataDelays) :
              LET bf == IF m > 0 THEN [buff EXCEPT ![n + 1] = ByteAt(1)] ELSE buff
                  r  == IF m > 0 THEN ResyncStep(n, bf) ELSE [n |-> n, buff |-> bf]
                  t  == now + d
              IN  /\ pos' = Advance(m)
                  /\ ev' = LoopPass(m, TimedOut(t, startTime))
                  /\ IF TimedOut(t, startTime)
                     THEN now' = t /\ AfterAttempt(1, t)
                     ELSE \E y \in YieldDelays :
                            /\ now' = t + y
                            /\ IF MarkerLocked(r.buff)
                               THEN pc' = "payload" /\ n' = 2
                               ELSE pc' = "resync" /\ n' = r.n
                            /\ buff' = r.buff
                            /\ UNCHANGED <<startTime, i, ret, outcomes, pos0>>
    /\ UNCHANGED <<drv, meas, stream, endless, lastOp, bret, horizon>>

\* the byte counts one readBytes(buff + n, sizeof(buff) - n) can return
PayloadReads(avail, want) ==
    LET most == IF avail < want THEN avail ELSE want
    IN  {0, most} \cup (IF Chunk < most THEN {Chunk} ELSE {})

\* one pass of the second loop of getDataInternal(), and what follows it
ReadPayload ==
    /\ pc = "payload"
    /\ \E m \in PayloadReads(Pending, BUFF_SIZE - n) :
       \E d \in (IF m = 0 THEN BlockDelays ELSE DataDelays) :
         LET bf == [k \in 1..BUFF_SIZE |->
                      IF k > n /\ k <= n + m THEN ByteAt(k - n) ELSE buff[k]]
             n1 == IF m > 0 THEN n + m ELSE n
             t  == now + d
         IN  /\ pos' = Advance(m)
             /\ ev' = LoopPass(m, TimedOut(t, startTime))
             /\ IF TimedOut(t, startTime)
                THEN now' = t /\ meas' = meas /\ AfterAttempt(1, t)
                ELSE \E y \in YieldDelays :
                       /\ now' = t + y
                       /\ IF n1 < BUFF_SIZE
                          THEN /\ n' = n1 /\ buff' = bf /\ meas' = meas
                               /\ UNCHANGED <<pc, startTime, i, ret, outcomes, pos0>>
                          ELSE LET r == Validate(bf, meas)
                               IN  meas' = r.meas /\ AfterAttempt(r.rc, t + y)
    /\ UNCHANGED <<drv, stream, endless, lastOp, bret, horizon>>

Next ==
    \/ Tick
    \/ isReady
    \/ isSleeping
    \/ Sleep
    \/ WakeUp
    \/ getData
    \/ ReadResync
    \/ ReadPayload

Spec == Init /\ [][Next]_vars

SpecFrames == InitFrames /\ [][Next]_vars

\* every readBytes() call returns and the loop goes on to its next pass, and
\* millis() does not stand still for ever while a loop runs
SpecLive ==
    /\ InitLive /\ [][Next]_vars
    /\ WF_vars(ReadResync)
    /\ WF_vars(ReadPayload)
    /\ WF_vars((ReadResync \/ ReadPayload) /\ now' > now)

-----------------------------------------------------------------------------
(* Properties *)

\* the frame the finished getDataInternal() assembled: the last 32 bytes consumed
LastFrame == SubSeq(stream, pos - BUFF_SIZE + 1, pos)

\* the 12 big-endian 16-bit values at frame offsets 4, 6, ..., 26
FrameFields(f) == [k \in 1..12 |-> 256 * f[3 + 2 * k] + f[4 + 2 * k]]

\* the driver is awake with a transport and at most PREHEAT_TIME has elapsed
InPreheat == (~_isSleeping) /\ _uart /\ now - _wakeUpTime <= PREHEAT_TIME

\* C1: the 12 data fields change only in the step in which getData() returns
\* 1, and then all 12 are the fields of the one frame just read; every other
\* step (a call that returns 0 or a negative value, at whatever point it
\* fails, and every Sleep(), WakeUp(), isReady() call) leaves them as they were.
MeasChangesOnlyOnSuccess ==
    [][meas' # meas =>
         /\ pc # "idle" /\ pc' = "idle"
         /\ lastOp' = "getData" /\ ret' = 1
         /\ meas' = FrameFields(LastFrame')]_vars

\* a call that read a whole corrupt frame has returned 0 and the fields of the
\* earlier frame are still there
FailedCallKeptMeas ==
    /\ pc = "idle" /\ lastOp = "getData" /\ ret = 0
    /\ stream = FrameA \o BadCrc /\ pos = Len(stream)
    /\ 2 \in {outcomes[k] : k \in 1..Len(outcomes)}
    /\ meas = FieldsA

\* C3: a getData() call made awake, with a transport and within the preheat
\* time returns a strictly negative number.
PreheatReturnNegative ==
    (pc = "idle" /\ lastOp = "getData" /\ InPreheat) => ret < 0

\* C4: a getData() call made awake, with a transport and with at most
\* PREHEAT_TIME elapsed since wake returns in that step without reading: the
\* stream position is unchanged and no read loop is entered.
PreheatCallReadsNothing ==
    [][(getData /\ InPreheat) => (pos' = pos /\ pc' = "idle")]_vars

\* getData() has returned at exactly PREHEAT_TIME with bytes pending, none read
PreheatBoundaryCall ==
    /\ pc = "idle" /\ lastOp = "getData" /\ (~_isSleeping) /\ _uart
    /\ now - _wakeUpTime = PREHEAT_TIME
    /\ pos = 0 /\ Len(stream) > 0

-----------------------------------------------------------------------------

Outcomes == {outcomes[k] : k \in 1..Len(outcomes)}
LastOutcome == outcomes[Len(outcomes)]

\* this step ends a getDataInternal() call
AttemptEnds == Len(outcomes') > Len(outcomes)

NoMarkerPair(g) == \A k \in 1..(Len(g) - 1) : ~(g[k] = MARK1 /\ g[k + 1] = MARK2)

\* C2: in a getDataInternal() call entered inside a garbage prefix that holds
\* no 0x42,0x4D pair and is followed by a valid frame, the reader is locked on
\* that frame as soon as its two marker bytes are consumed, and while it
\* searches, the prefix length n is 1 exactly when the byte read last is 0x42.
ResyncLocksOnFrame ==
    \A g \in Garbage :
        (NoMarkerPair(g) /\ stream = g \o FrameA /\ pc # "idle" /\ pos0 <= Len(g)) =>
            /\ (pos >= Len(g) + 2) => (pc = "payload" /\ n = pos - Len(g))
            /\ (pc = "resync" /\ pos > pos0) => (n = 1 <=> stream[pos] = MARK1)

\* C5: once a getDataInternal() call of a getData() call has timed out, that
\* getData() call has returned 0, the timeout is its last result, and the
\* stream position does not move until the next call.
TimeoutEndsCall ==
    /\ [](1 \in Outcomes =>
            pc = "idle" /\ lastOp = "getData" /\ ret = 0 /\ LastOutcome = 1)
    /\ [][1 \in Outcomes => pos' = pos]_vars

\* the second try of a call timed out with bytes still pending
TimeoutOnSecondTry ==
    /\ pc = "idle" /\ lastOp = "getData" /\ ret = 0
    /\ outcomes = <<2, 1>> /\ pos < Len(stream)

\* C6: a getData() call makes at most TRIES_NUM tries; three corrupt tries end
\* it with 0, a call whose last try was corrupt made exactly three; a try that
\* follows a corrupt one has its window started at the clock read after the
\* rejection, and times out only READ_TIMEOUT after that start.
AtMostThreeTries ==
    /\ [](/\ Len(outcomes) <= TRIES_NUM
          /\ (pc # "idle") => (Len(outcomes) = i /\ i < TRIES_NUM)
          /\ (outcomes = <<2, 2, 2>>) => (pc = "idle" /\ ret = 0)
          /\ (pc = "idle" /\ outcomes # <<>> /\ LastOutcome = 2) => Len(outcomes) = TRIES_NUM)
    /\ [][(AttemptEnds /\ pc' # "idle") =>
             (LastOutcome' = 2 /\ startTime' = now')]_vars
    /\ [][(AttemptEnds /\ LastOutcome' = 1) => now' - startTime >= READ_TIMEOUT]_vars

\* three corrupt frames were read, the call returned 0, the fourth frame is unread
ThreeCorruptTries ==
    /\ pc = "idle" /\ lastOp = "getData" /\ ret = 0
    /\ outcomes = <<2, 2, 2>>
    /\ pos = 3 * BUFF_SIZE /\ Len(stream) > pos

\* C7: once a getDataInternal() call of a getData() call has succeeded, that
\* getData() call has returned 1, every earlier try of it was corrupt, the
\* data fields are those of the frame of the successful try, and the stream
\* position does not move until the next call.
SuccessEndsCall ==
    /\ [](0 \in Outcomes =>
            /\ pc = "idle" /\ lastOp = "getData" /\ ret = 1
            /\ LastOutcome = 0
            /\ \A k \in 1..(Len(outcomes) - 1) : outcomes[k] = 2
            /\ meas = FrameFields(LastFrame))
    /\ [][0 \in Outcomes => pos' = pos]_vars

\* two corrupt frames carrying other values, then success on the third try
SuccessOnThirdTry ==
    /\ pc = "idle" /\ lastOp = "getData" /\ ret = 1
    /\ outcomes = <<2, 2, 0>>
    /\ stream = BadCrc \o BadCrc \o FrameA /\ pos = Len(stream)
    /\ meas = FieldsA /\ FieldsA # FrameFields(BadCrc)

\* the declared length is 28 and the checksum is the 16-bit sum of bytes 0..29
GoodFrame(f) ==
    /\ 256 * f[3] + f[4] = FRAME_LENGTH
    /\ SumBytes(f, CRC_BYTES) % UINT16 = 256 * f[31] + f[32]

\* this step reads the last byte of the 32-byte buffer
BufferCompleted == pc = "payload" /\ pos' > pos /\ n + (pos' - pos) = BUFF_SIZE

\* C8 as stated: a completed buffer that fails a check is classified Corrupt,
\* and Success is returned only when both checks pass.
BadFrameIsCorrupt ==
    [][/\ (BufferCompleted /\ ~GoodFrame(LastFrame')) => LastOutcome' = 2
       /\ (AttemptEnds /\ LastOutcome' = 0) => GoodFrame(LastFrame')]_vars

\* C8 amended: a completed buffer that fails a check is never classified
\* Success; it is classified Corrupt, or TimedOut when the read that completed
\* it ended READ_TIMEOUT or more after the window start; Success is returned
\* only when both checks pass.
BadFrameNeverSuccess ==
    [][/\ (BufferCompleted /\ ~GoodFrame(LastFrame')) =>
            /\ AttemptEnds
            /\ LastOutcome' \in {1, 2}
            /\ LastOutcome' = 1 => now' - startTime >= READ_TIMEOUT
       /\ (AttemptEnds /\ LastOutcome' = 0) => GoodFrame(LastFrame')]_vars

\* a frame with a right checksum and a wrong declared length was rejected
BadLengthRejected ==
    /\ outcomes # <<>> /\ LastOutcome = 2
    /\ stream = BadLen \o FrameA /\ pos = BUFF_SIZE
    /\ SumBytes(BadLen, CRC_BYTES) = 256 * BadLen[31] + BadLen[32]

\* C9: when getDataInternal() accepts a frame, data field number k (0-based,
\* in declaration order) is 256 * byte[4+2k] + byte[5+2k] of that frame.
DecodeIsBigEndian ==
    [][(AttemptEnds /\ LastOutcome' = 0) =>
          \A k \in 0..11 : meas'[k + 1] = 256 * LastFrame'[5 + 2 * k] + LastFrame'[6 + 2 * k]]_vars

\* a frame that differs from FrameA in bytes 28..29 only was decoded
DecodedSecondFrame ==
    /\ pc = "idle" /\ lastOp = "getData" /\ ret = 1
    /\ stream = FrameB \o FrameA2 /\ pos = Len(stream)
    /\ FrameA2[29] # FrameA[29]
    /\ meas = FieldsA

\* C10 as stated, for a driver with a transport: isReady() returns true exactly
\* when the driver is awake and at least PREHEAT_TIME has elapsed since wake.
ReadyFromBoundary ==
    [][(isReady /\ _uart) =>
          (bret' <=> ((~_isSleeping) /\ now - _wakeUpTime >= PREHEAT_TIME))]_vars

\* C10 amended: isReady() returns true exactly when the driver is awake, has a
\* transport and more than PREHEAT_TIME has elapsed since wake.
ReadyAfterBoundary ==
    [][isReady => (bret' <=> ((~_isSleeping) /\ _uart /\ now - _wakeUpTime > PREHEAT_TIME))]_vars

\* isReady() was called at exactly PREHEAT_TIME and returned false
NotReadyAtBoundary ==
    /\ pc = "idle" /\ lastOp = "isReady" /\ bret = FALSE
    /\ (~_isSleeping) /\ _uart /\ now - _wakeUpTime = PREHEAT_TIME

-----------------------------------------------------------------------------

HasPin == _sleepPin >= 0

ReadyOnlyAwakeAndLatched ==
    /\ [](_isSleeping => ~_isReady)
    /\ [][(isReady /\ _isSleeping) => bret' = FALSE]_vars
    /\ [][(_isReady /\ ~_isReady') => (Sleep /\ HasPin)]_vars
    /\ [][(isReady /\ _isReady /\ ~_isSleeping) => (bret' = TRUE /\ _isReady')]_vars

\* isReady() returned true again well after the boundary, the flag being latched
ReadyStaysTrue ==
    /\ HasPin /\ ~_isSleeping /\ _isReady
    /\ pc = "idle" /\ lastOp = "isReady" /\ bret = TRUE
    /\ now - _wakeUpTime > PREHEAT_TIME + READ_TIMEOUT

\* C13: without a sleep pin the driver is never sleeping and no level is ever
\* written to a pin; Sleep() and WakeUp() change neither the driver fields,
\* the data fields, the clock nor the stream position, Sleep() returns false
\* and WakeUp() returns true.
NoPinNoOp ==
    /\ []((~HasPin) => (~_isSleeping /\ pin = "none"))
    /\ [][((Sleep \/ WakeUp) /\ ~HasPin) =>
             UNCHANGED <<drv, meas, now, stream, pos, loc>>]_vars
    /\ [][(Sleep /\ ~HasPin) => bret' = FALSE]_vars
    /\ [][(WakeUp /\ ~HasPin) => bret' = TRUE]_vars

\* Sleep() was called on a ready driver without a sleep pin and changed nothing
SleepWithoutPin ==
    /\ ~HasPin /\ _isReady /\ ~_isSleeping /\ pos > 0
    /\ pc = "idle" /\ lastOp = "Sleep" /\ bret = FALSE

\* C14: with a sleep pin, WakeUp() on an awake driver and Sleep() on a
\* sleeping driver change no driver field, data field or stream position (so
\* a second call of the same operation changes nothing), Sleep() always
\* leaves the driver sleeping and returns true, WakeUp() always leaves it
\* awake and returns true.
SleepWakeIdempotent ==
    /\ [][(WakeUp /\ HasPin /\ ~_isSleeping) =>
             UNCHANGED <<drv, meas, now, stream, pos, loc>>]_vars
    /\ [][(Sleep /\ HasPin /\ _isSleeping) =>
             UNCHANGED <<drv, meas, now, stream, pos, loc>>]_vars
    /\ [][(Sleep /\ HasPin) => (_isSleeping' /\ bret' = TRUE)]_vars
    /\ [][(WakeUp /\ HasPin) => (~_isSleeping' /\ bret' = TRUE)]_vars

\* WakeUp() was called on a driver that was awake and ready: the readiness and
\* the old wake time are still there
WakeUpWhileAwake ==
    /\ HasPin /\ ~_isSleeping /\ _isReady
    /\ pc = "idle" /\ lastOp = "WakeUp" /\ bret = TRUE
    /\ now - _wakeUpTime > PREHEAT_TIME

\* C15: a getData() call made while sleeping or without a transport returns 0
\* at once without reading; and no step of any getData() call changes the
\* sleeping flag, the readiness flag or the wake time.
SleepingOrNoUartReturnsZero ==
    /\ [][(getData /\ (_isSleeping \/ ~_uart)) =>
             (ret' = 0 /\ pc' = "idle" /\ pos' = pos)]_vars
    /\ [][(getData \/ pc # "idle") =>
             UNCHANGED <<_isSleeping, _isReady, _wakeUpTime>>]_vars

\* getData() returned 0 on a sleeping driver that has a transport with bytes
\* pending and is within PREHEAT_TIME of its wake time
SleepingCallReturnedZero ==
    /\ _isSleeping /\ _uart /\ pos < Len(stream)
    /\ now > 0 /\ now - _wakeUpTime \in 0..(PREHEAT_TIME - 1000)
    /\ pc = "idle" /\ lastOp = "getData" /\ ret = 0

\* a call that read only the valid frame returned 1 after an earlier call had
\* failed on the corrupt frame in front of it
RecoveredAfterFailure ==
    /\ pc = "idle" /\ lastOp = "getData" /\ ret = 1
    /\ stream = BadCrc \o FrameA /\ pos = Len(stream)
    /\ outcomes = <<0>>

\* C16: a Sleep() call made with a sleep pin on a driver that is awake, has a
\* transport and is past its preheat, with bytes pending on the transport,
\* consumes some of those bytes, and leaves the data fields as they were.
SleepDrainsTransport ==
    [][(/\ Sleep /\ HasPin /\ _uart /\ ~_isSleeping
        /\ now - _wakeUpTime > PREHEAT_TIME
        /\ pos < Len(stream))
          => (pos' > pos /\ meas' = meas)]_vars

\* C17 as stated: an attempt that has assembled the full 32-byte buffer ends
\* in that step with Success or Corrupt, as the integrity checks decide.
FullBufferNeverTimedOut ==
    [][BufferCompleted =>
         (AttemptEnds /\ LastOutcome' = IF GoodFrame(LastFrame') THEN 0 ELSE 2)]_vars

\* C17: an attempt ends TimedOut only with READ_TIMEOUT or more elapsed since
\* the window start, and an attempt that ends without a full buffer ends
\* TimedOut; a buffer completed by a read that is over before READ_TIMEOUT
\* has elapsed is classified Success or Corrupt by the integrity checks; a
\* buffer completed by a read that starts READ_TIMEOUT or more after the
\* window start is classified TimedOut.
TimedOutIffWindowExpired ==
    [][/\ (AttemptEnds /\ LastOutcome' = 1) => now' - startTime >= READ_TIMEOUT
       /\ (AttemptEnds /\ ~BufferCompleted) => LastOutcome' = 1
       /\ (BufferCompleted /\ now' - startTime < READ_TIMEOUT) =>
             (AttemptEnds /\ LastOutcome' = IF GoodFrame(LastFrame') THEN 0 ELSE 2)
       /\ (BufferCompleted /\ now - startTime >= READ_TIMEOUT) =>
             (AttemptEnds /\ LastOutcome' = 1)]_vars

\* a call whose single attempt consumed a whole valid frame ended TimedOut and
\* returned 0 with the data fields not taken from that frame
LateFrameTimedOut ==
    /\ pc = "idle" /\ lastOp = "getData" /\ ret = 0
    /\ outcomes = <<1>>
    /\ pos >= BUFF_SIZE
    /\ GoodFrame(LastFrame) /\ NoMarkerPair(SubSeq(stream, 1, pos - BUFF_SIZE))
    /\ meas # FrameFields(LastFrame)

\* this step is one pass of a read loop of getDataInternal()
ReadPass == ReadResync \/ ReadPayload

\* C18: every loop pass of a frame-read attempt does its read, then the
\* timeout check, then (unless the check ended the attempt TimedOut) the
\* yield, in that order; so whenever the reader is inside getData() and about
\* to read again, the pass before ended with a yield.
YieldBetweenReads ==
    /\ [](pc # "idle" => (ev = <<>> \/ ev = <<"read", "check", "yield">>))
    /\ [][ReadPass =>
            /\ Len(ev') >= 2 /\ ev'[1] = "read" /\ ev'[2] = "check"
            /\ Len(ev') = 2 => (AttemptEnds /\ LastOutcome' = 1)
            /\ Len(ev') > 2 => (Len(ev') = 3 /\ ev'[3] = "yield")]_vars

\* the reader is in the payload phase after a partial payload read that
\* returned bytes, and the pass of that read ended with a yield
YieldedAfterDataRead ==
    /\ pc = "payload" /\ n = 2 + Chunk /\ pos > pos0
    /\ ev = <<"read", "check", "yield">>

\* C19 as stated, its last part: whenever the reader is about to start a read
\* the window of the running attempt has not yet reached READ_TIMEOUT.
NoReadAfterWindow ==
    pc # "idle" => now - startTime < READ_TIMEOUT

\* C19: every getData() call returns; and a read that is started with
\* READ_TIMEOUT or more elapsed in the attempt's window is the last read of
\* the attempt and of the call: the attempt ends TimedOut in that pass.
CallsReturn ==
    /\ (pc # "idle") ~> (pc = "idle")
    /\ [][(ReadPass /\ now - startTime >= READ_TIMEOUT) =>
             (AttemptEnds /\ LastOutcome' = 1 /\ pc' = "idle" /\ ret' = 0)]_vars

\* a call on a transport that delivers garbage without a marker for ever has
\* returned 0 after one TimedOut attempt
ReturnedOnEndlessGarbage ==
    /\ endless /\ Len(stream) > 0 /\ NoMarkerPair(stream \o stream)
    /\ pc = "idle" /\ lastOp = "getData" /\ ret = 0
    /\ outcomes = <<1>>

\* C20: in every state in which the host can call the driver, awake and with
\* a transport, isReady() would return true exactly when getData() would go
\* on to read, and false exactly when getData() would return at once from its
\* preheat branch without reading; and a getData() call that did read
\* returned 0 or 1.
ReadyAgreesWithGetData ==
    /\ (pc = "idle" /\ ~_isSleeping /\ _uart /\ Instant(now)) =>
          /\ (ENABLED (isReady /\ bret')) <=> (ENABLED (getData /\ pc' = "resync"))
          /\ (ENABLED (isReady /\ ~bret')) <=>
                (ENABLED (/\ getData /\ pc' = "idle" /\ pos' = pos
                          /\ ret' = PreheatReturn(now - _wakeUpTime)))
    /\ (pc = "idle" /\ lastOp = "getData" /\ outcomes # <<>>) => ret \in {0, 1}

\* in a wake period begun by a WakeUp() out of sleep, getData() called exactly
\* PREHEAT_TIME after the wake has returned from its preheat branch, and the
\* readiness flag is not set
AgreeAtBoundaryAfterWakeUp ==
    /\ HasPin /\ _uart /\ ~_isSleeping /\ ~_isReady
    /\ _wakeUpTime > 0 /\ now - _wakeUpTime = PREHEAT_TIME
    /\ pc = "idle" /\ lastOp = "getData" /\ ret = 0 /\ outcomes = <<>>

====
